---- MODULE Spec2Model ----
(***************************************************************************)
(* polymarket-apis: the canonical value validators (types/common.py), the  *)
(* Signer and the CLOB auth message builder (utilities/signing), and the   *)
(* GQLPosition._flatten pre-validator (types/data_types.py).               *)
(*                                                                         *)
(* Python values are records of one shape, [t, s, b]: t is the Python      *)
(* type, s the characters of a str (a sequence of one-character strings),  *)
(* b the octets of a bytes / HexBytes object.                              *)
(***************************************************************************)
EXTENDS Integers, Sequences, FiniteSets, TLC

VARIABLES
    v,          \* validators: the value the caller is about to pass
    call,       \* validators: the last call  [fn, arg, res]
    prev,       \* validators: the call before the last one
    vpc,        \* validators: "start", "called" (one call made), "finished" (two)
    signers,    \* signing: the Signer objects constructed so far
    ctor,       \* signing: arguments and outcome of the last Signer(...) call
    calls,      \* signing: each caller's position in sign_clob_auth_message
    values,     \* flatten: the mapping handed to GQLPosition._flatten
    orig,       \* flatten: the mapping as it was before the call
    fpc         \* flatten: "start" or "done"

valVars == <<v, call, prev, vpc>>
signVars == <<signers, ctor, calls>>
flatVars == <<values, orig, fpc>>
vars == <<v, call, prev, vpc, signers, ctor, calls, values, orig, fpc>>

----------------------------------------------------------------------------
(* Bounds of the model *)

\* how far the generated text lengths stray from the two accepted lengths
MaxSlack == 2

(* Program constants *)
ADDR_HEX_LEN == 40
HASH_HEX_LEN == 64
PADDED_LEN == 66

----------------------------------------------------------------------------
(* Python values *)

StrV(s) == [t |-> "str", s |-> s, b |-> <<>>]
BytesV(b) == [t |-> "bytes", s |-> <<>>, b |-> b]
HexBytesV(b) == [t |-> "HexBytes", s |-> <<>>, b |-> b]
IntV == [t |-> "int", s |-> <<>>, b |-> <<>>]
NoVal == [t |-> "none", s |-> <<>>, b |-> <<>>]

Ok(val) == [ok |-> TRUE, val |-> val, err |-> ""]
Raise(e) == [ok |-> FALSE, val |-> NoVal, err |-> e]

ZX == <<"0", "x">>

\* the character class [a-fA-F0-9]
HexChars ==
    {"0", "1", "2", "3", "4", "5", "6", "7", "8", "9",
     "a", "b", "c", "d", "e", "f", "A", "B", "C", "D", "E", "F"}

LowerDigits ==
    <<"0", "1", "2", "3", "4", "5", "6", "7", "8", "9",
      "a", "b", "c", "d", "e", "f">>

\* bytes.hex(): two lowercase digits per octet, no prefix
BytesHex(b) ==
    [i \in 1..(2 * Len(b)) |->
        IF i % 2 = 1 THEN LowerDigits[(b[(i + 1) \div 2] \div 16) + 1]
                     ELSE LowerDigits[(b[i \div 2] % 16) + 1]]

\* v.hex() for bytes and for HexBytes.  HexBytes.hex() is "0x"-prefixed in
\* hexbytes < 1.0 and bare from 1.0 on: hp says which build is installed.
Hex(val, hp) ==
    IF val.t = "HexBytes" /\ hp THEN ZX \o BytesHex(val.b) ELSE BytesHex(val.b)

\* str.startswith("0x")
StartsWith0x(s) == Len(s) >= 2 /\ s[1] = "0" /\ s[2] = "x"

\* re.match(r"^0x[a-fA-F0-9]{64}$", s): "$" matches at the end of the string
\* and also just before a newline that ends the string.
KECCAK256_REGEX(s) ==
    /\ Len(s) \in {2 + HASH_HEX_LEN, 3 + HASH_HEX_LEN}
    /\ s[1] = "0" /\ s[2] = "x"
    /\ \A i \in 3..(2 + HASH_HEX_LEN) : s[i] \in HexChars
    /\ Len(s) = 3 + HASH_HEX_LEN => s[Len(s)] = "\n"

\* re.match(r"^0x[a-fA-F0-9]{40}$", s) compiled with re.IGNORECASE
CHECKSUM_ADDRESS_REGEX(s) ==
    /\ Len(s) \in {2 + ADDR_HEX_LEN, 3 + ADDR_HEX_LEN}
    /\ s[1] = "0" /\ s[2] \in {"x", "X"}
    /\ \A i \in 3..(2 + ADDR_HEX_LEN) : s[i] \in HexChars
    /\ Len(s) = 3 + ADDR_HEX_LEN => s[Len(s)] = "\n"

----------------------------------------------------------------------------
(* The validators *)

validate_keccak256(val, hp) ==
    LET v1 == IF val.t \in {"HexBytes", "bytes"} THEN StrV(Hex(val, hp)) ELSE val
    IN  IF v1.t # "str" THEN Raise("TypeError")
        ELSE LET v2 == IF ~StartsWith0x(v1.s) THEN ZX \o v1.s ELSE v1.s
             IN  IF ~KECCAK256_REGEX(v2) THEN Raise("ValueError")
                 ELSE Ok(StrV(v2))

validate_eth_address(val, hp) ==
    LET v1 == IF val.t \in {"HexBytes", "bytes"} THEN StrV(Hex(val, hp)) ELSE val
    IN  IF v1.t # "str" THEN Raise("TypeError")
        ELSE LET v2 == IF ~StartsWith0x(v1.s) THEN ZX \o v1.s ELSE v1.s
             IN  IF ~CHECKSUM_ADDRESS_REGEX(v2) THEN Raise("ValueError")
                 ELSE Ok(StrV(v2))

\* faulty variant: "0x" is prepended without looking at the text
hexbytes_to_str_always_prefix(val, hp) ==
    IF val.t = "HexBytes" THEN Ok(StrV(ZX \o Hex(val, hp)))
    ELSE IF val.t = "bytes" THEN Ok(StrV(ZX \o BytesHex(val.b)))
    ELSE IF val.t = "str" THEN Ok(StrV(ZX \o val.s))
    ELSE Ok(val)

hexbytes_to_str(val, hp) ==
    IF val.t = "HexBytes"
    THEN LET hex_str == Hex(val, hp)
         IN  Ok(StrV(IF StartsWith0x(hex_str) THEN hex_str ELSE ZX \o hex_str))
    ELSE IF val.t = "bytes" THEN Ok(StrV(ZX \o BytesHex(val.b)))
    ELSE IF val.t = "str" /\ ~StartsWith0x(val.s) THEN Ok(StrV(ZX \o val.s))
    ELSE Ok(val)

\* faulty variant: the length is tested, the characters are not
validate_keccak_or_padded_len_only(val, hp) ==
    LET v1 == IF val.t \in {"HexBytes", "bytes"} THEN StrV(Hex(val, hp)) ELSE val
    IN  IF v1.t # "str" THEN Raise("TypeError")
        ELSE LET v_str == IF ~StartsWith0x(v1.s) THEN ZX \o v1.s ELSE v1.s
             IN  IF Len(v_str) = PADDED_LEN THEN Ok(StrV(v_str))
                 ELSE Raise("ValueError")

validate_keccak_or_padded(val, hp) ==
    LET v1 == IF val.t \in {"HexBytes", "bytes"} THEN StrV(Hex(val, hp)) ELSE val
    IN  IF v1.t # "str" THEN Raise("TypeError")
        ELSE LET v_str == IF ~StartsWith0x(v1.s) THEN ZX \o v1.s ELSE v1.s
             IN  IF /\ Len(v_str) = PADDED_LEN
                    /\ \A i \in 3..Len(v_str) : v_str[i] \in HexChars
                 THEN Ok(StrV(v_str))
                 ELSE Raise("ValueError")

----------------------------------------------------------------------------
(* Inputs of the validators *)

Fill(c, n) == [i \in 1..n |-> c]
Patch(s, p, d) == [i \in 1..Len(s) |-> IF i = p THEN d ELSE s[i]]

TextLens ==
    {L + k : L \in {ADDR_HEX_LEN, HASH_HEX_LEN}, k \in (0 - MaxSlack)..MaxSlack}

\* a run of one hex letter, possibly with one character at either end replaced
\* by a non-hex letter, an "x", a newline or a digit
Bodies ==
    UNION {{Fill(c, n)} \cup {Patch(Fill(c, n), p, d) :
                                p \in {1, n}, d \in {"g", "x", "\n", "0"}} :
           c \in {"a", "F"}, n \in TextLens}

\* 32-octet values that are zero-padded on the left (a padded address has 24
\* zero digits, a value with 24 zero octets has 48)
PaddedBodies ==
    {Fill("0", z) \o Fill(c, HASH_HEX_LEN - z) : z \in {24, 48}, c \in {"a", "F"}}

StrInputs ==
    {StrV(p \o s) : p \in {<<>>, ZX, <<"0", "X">>}, s \in Bodies \cup PaddedBodies}

ByteLens == {(L \div 2) + k : L \in {ADDR_HEX_LEN, HASH_HEX_LEN}, k \in {-1, 0, 1}}

ByteInputs ==
    UNION {{BytesV(Fill(o, n)), HexBytesV(Fill(o, n))} : o \in {0, 171}, n \in ByteLens}

Inputs == StrInputs \cup ByteInputs \cup {IntV}

\* str.lower() / str.upper() on the characters the inputs are made of
Lowers == <<"a", "b", "c", "d", "e", "f", "g", "x">>
Uppers == <<"A", "B", "C", "D", "E", "F", "G", "X">>
Recase(c, from, to) ==
    IF \E i \in 1..Len(from) : from[i] = c
    THEN to[CHOOSE i \in 1..Len(from) : from[i] = c]
    ELSE c
Lower(s) == [i \in 1..Len(s) |-> Recase(s[i], Uppers, Lowers)]
Upper(s) == [i \in 1..Len(s) |-> Recase(s[i], Lowers, Uppers)]

\* the text after an optional leading "0x"
Body(s) == IF StartsWith0x(s) THEN SubSeq(s, 3, Len(s)) ELSE s

\* the other ways of writing the same digits: either case, with or without "0x"
Variants(val) ==
    {StrV(p \o b) : p \in {<<>>, ZX}, b \in {Lower(Body(val.s)), Upper(Body(val.s))}}

----------------------------------------------------------------------------
(* The validators as operations: a caller makes two calls in a row *)

NoCall == [fn |-> "none", arg |-> NoVal, res |-> Raise("")]

\* the parts of the state at rest
ValIdle == v = NoVal /\ call = 0 /\ prev = 0 /\ vpc = "start"
SignIdle == signers = <<>> /\ ctor = 0 /\ calls = 0
FlatIdle == values = 0 /\ orig = 0 /\ fpc = "start"

InitVal ==
    /\ v \in Inputs
    /\ call = NoCall
    /\ prev = NoCall
    /\ vpc = "start"
    /\ SignIdle
    /\ FlatIdle

Called(fn, res) ==
    /\ vpc \in {"start", "called"}
    /\ prev' = call
    /\ call' = [fn |-> fn, arg |-> v, res |-> res]
    /\ vpc' = IF vpc = "start" THEN "called" ELSE "finished"
    /\ UNCHANGED <<v, signVars, flatVars>>

CallValidateKeccak256 ==
    \E hp \in BOOLEAN : Called("validate_keccak256", validate_keccak256(v, hp))

CallValidateEthAddress ==
    \E hp \in BOOLEAN : Called("validate_eth_address", validate_eth_address(v, hp))

CallHexbytesToStr ==
    \E hp \in BOOLEAN : Called("hexbytes_to_str", hexbytes_to_str(v, hp))

CallValidateKeccakOrPadded ==
    \E hp \in BOOLEAN :
        Called("validate_keccak_or_padded", validate_keccak_or_padded(v, hp))

\* the caller passes the value a validator returned to the next call
Feed ==
    /\ vpc = "called"
    /\ call.res.ok
    /\ v' = call.res.val
    /\ v' # v
    /\ UNCHANGED <<call, prev, vpc, signVars, flatVars>>

\* the caller passes the same digits written another way to the next call
Resubmit ==
    /\ vpc = "called"
    /\ v.t = "str"
    /\ v' \in Variants(v) \ {v}
    /\ UNCHANGED <<call, prev, vpc, signVars, flatVars>>

NextVal ==
    \/ CallValidateKeccak256
    \/ CallValidateEthAddress
    \/ CallHexbytesToStr
    \/ CallValidateKeccakOrPadded
    \/ Feed
    \/ Resubmit

SpecVal == InitVal /\ [][NextVal]_vars

----------------------------------------------------------------------------
(* Signing: utilities/signing *)

\* how many Signer objects are constructed
MaxSigners == 2

\* a value that may be None: None is the empty sequence, x is <<x>>
None == <<>>
Some(x) == <<x>>

CLOB_DOMAIN_NAME == "ClobAuthDomain"
CLOB_VERSION == "1"
MSG_TO_SIGN == "This message attests that I control the given wallet"

\* Keccak-256 and ECDSA are taken as perfect: a digest or a signature is the
\* term it was computed from, so two of them are equal only if their inputs are.
Keccak(x) == [keccak |-> x]
EcdsaSign(scalar, digest) == [signed_by |-> scalar, over |-> digest]
\* the address an account derives from its key
AddressOf(scalar) == [address_of |-> scalar]

\* A str of hex digits: zx copies of "0x", then the digits of the octets `of`
HexText(zx, n, x) == [zx |-> zx, digits |-> n, of |-> x]
HexTextLen(s) == 2 * s.zx + s.digits

\* str(n) for an int
RECURSIVE Digits(_)
Digits(n) ==
    IF n < 10 THEN <<LowerDigits[n + 1]>>
    ELSE Append(Digits(n \div 10), LowerDigits[(n % 10) + 1])
Str(n) == IF n < 0 THEN <<"-">> \o Digits(0 - n) ELSE Digits(n)

\* py_order_utils.utils.prepend_zx: "0x" is put in front of a text longer than
\* two characters that does not start with it
\* (faulty variant: the prefix is added without the test)
prepend_zx_always(s) == [s EXCEPT !.zx = s.zx + 1]

prepend_zx(s) ==
    IF HexTextLen(s) > 2 /\ s.zx = 0 THEN [s EXCEPT !.zx = 1] ELSE s

\* eth_account's Account.from_key: a key is 32 octets holding a scalar >= 1
KeyOk(k) == k.nbytes = 32 /\ k.scalar >= 1

PrivateKeys ==
    {None, Some([nbytes |-> 31, scalar |-> 1])}
        \cup {Some([nbytes |-> 32, scalar |-> s]) : s \in 0..2}
ChainIds == {None, Some(1), Some(137)}
Timestamps == {9, 1700}
Nonces == {0, 1}
Callers == {"c1", "c2"}

\* faulty variant: the domain is built for chain 137 whatever the signer's chain
get_clob_auth_domain_fixed_chain(chain_id) ==
    [name |-> CLOB_DOMAIN_NAME, version |-> CLOB_VERSION, chainId |-> Some(137)]

get_clob_auth_domain(chain_id) ==
    [name |-> CLOB_DOMAIN_NAME, version |-> CLOB_VERSION, chainId |-> chain_id]

\* model.ClobAuth: the four fields in declaration order, each with its value
ClobAuth(address, timestamp, nonce, message) ==
    <<[field |-> "address", value |-> Some(address)],
      [field |-> "timestamp", value |-> Some(timestamp)],
      [field |-> "nonce", value |-> Some(nonce)],
      [field |-> "message", value |-> Some(message)]>>

\* EIP712Struct.signable_bytes(domain): 0x1901, the domain separator, the
\* struct hash
signable_bytes(msg, domain) ==
    [prefix |-> "1901", domain_separator |-> Keccak(domain),
     struct_hash |-> Keccak(msg)]

\* Signer.address()
address(self) == self.account.address

\* Signer.get_chain_id()
get_chain_id(self) == self.chain_id

\* Signer.sign(message_hash): Account.unsafe_sign_hash reads the hex text (one
\* optional "0x", then the digits of a 32-octet digest) and signs the digest
\* itself; signature.hex() is a HexBytes.hex(), prefixed or not with the build.
sign(self, message_hash, hp) ==
    IF message_hash.zx <= 1 /\ message_hash.digits = 2 * 32
    THEN Ok(HexText(IF hp THEN 1 ELSE 0, 2 * 65,
                    EcdsaSign(self.private_key[1].scalar, message_hash.of)))
    ELSE Raise("ValueError")

\* eip712.sign_clob_auth_message run from its first line to its last
sign_clob_auth_message(signer, timestamp, nonce, hp) ==
    LET clob_auth_msg ==
            ClobAuth(address(signer), Str(timestamp), nonce, MSG_TO_SIGN)
        chain_id == get_chain_id(signer)
        auth_struct_hash ==
            prepend_zx(HexText(0, 2 * 32,
                Keccak(signable_bytes(clob_auth_msg, get_clob_auth_domain(chain_id)))))
        r == sign(signer, auth_struct_hash, hp)
    IN  IF r.ok THEN Ok(prepend_zx(r.val)) ELSE r

IdleCall ==
    [pc |-> "idle", signer |-> 0, timestamp |-> 0, nonce |-> 0,
     clob_auth_msg |-> None, chain_id |-> None, auth_struct_hash |-> None,
     nsign |-> 0, result |-> None]

InitSign ==
    /\ signers = <<>>
    /\ ctor = [private_key |-> None, chain_id |-> None, raised |-> "not called"]
    /\ calls = [c \in Callers |-> IdleCall]
    /\ ValIdle
    /\ FlatIdle

\* faulty variant of Signer.__init__: chain_id is not tested, and the key only
\* by Account.from_key
SignerInit_no_chain_check(private_key, chain_id) ==
    /\ Len(signers) < MaxSigners
    /\ IF private_key = None \/ ~KeyOk(private_key[1])
       THEN /\ ctor' = [private_key |-> private_key, chain_id |-> chain_id,
                        raised |-> "ValueError"]
            /\ UNCHANGED signers
       ELSE /\ signers' = Append(signers,
                    [private_key |-> private_key,
                     account |-> [address |-> AddressOf(private_key[1].scalar)],
                     chain_id |-> chain_id])
            /\ ctor' = [private_key |-> private_key, chain_id |-> chain_id,
                        raised |-> ""]
    /\ UNCHANGED <<calls, valVars, flatVars>>

\* Signer.__init__
SignerInit(private_key, chain_id) ==
    /\ Len(signers) < MaxSigners
    /\ IF private_key = None
       THEN /\ ctor' = [private_key |-> private_key, chain_id |-> chain_id,
                        raised |-> "ValueError"]
            /\ UNCHANGED signers
       ELSE IF chain_id = None
       THEN /\ ctor' = [private_key |-> private_key, chain_id |-> chain_id,
                        raised |-> "ValueError"]
            /\ UNCHANGED signers
       ELSE IF ~KeyOk(private_key[1])
       THEN \* Account.from_key raises
            /\ ctor' = [private_key |-> private_key, chain_id |-> chain_id,
                        raised |-> "Account.from_key"]
            /\ UNCHANGED signers
       ELSE /\ signers' = Append(signers,
                    [private_key |-> private_key,
                     account |-> [address |-> AddressOf(private_key[1].scalar)],
                     chain_id |-> chain_id])
            /\ ctor' = [private_key |-> private_key, chain_id |-> chain_id,
                        raised |-> ""]
    /\ UNCHANGED <<calls, valVars, flatVars>>

\* a caller enters sign_clob_auth_message(signer, timestamp, nonce)
Begin(c, s, timestamp, nonce) ==
    /\ calls[c].pc = "idle"
    /\ s \in DOMAIN signers
    /\ calls' = [calls EXCEPT ![c] =
            [IdleCall EXCEPT !.pc = "L19", !.signer = s,
                             !.timestamp = timestamp, !.nonce = nonce]]
    /\ UNCHANGED <<signers, ctor, valVars, flatVars>>

\* lines 19-24: the ClobAuth struct, with signer.address() and str(timestamp)
BuildMsg(c) ==
    /\ calls[c].pc = "L19"
    /\ calls' = [calls EXCEPT ![c].pc = "L25",
            ![c].clob_auth_msg =
                Some(ClobAuth(address(signers[calls[c].signer]),
                              Str(calls[c].timestamp), calls[c].nonce,
                              MSG_TO_SIGN))]
    /\ UNCHANGED <<signers, ctor, valVars, flatVars>>

\* line 25: chain_id = signer.get_chain_id()
GetChainId(c) ==
    /\ calls[c].pc = "L25"
    /\ calls' = [calls EXCEPT ![c].pc = "L26",
            ![c].chain_id = get_chain_id(signers[calls[c].signer])]
    /\ UNCHANGED <<signers, ctor, valVars, flatVars>>

\* lines 26-28: the digest as hex text; keccak(...).hex() is a bytes.hex()
HashStruct(c) ==
    /\ calls[c].pc = "L26"
    /\ calls' = [calls EXCEPT ![c].pc = "L29",
            ![c].auth_struct_hash =
                Some(prepend_zx(HexText(0, 2 * 32,
                    Keccak(signable_bytes(calls[c].clob_auth_msg[1],
                        get_clob_auth_domain(calls[c].chain_id))))))]
    /\ UNCHANGED <<signers, ctor, valVars, flatVars>>

\* faulty variant of line 29: the key is zeroed in the Signer once used
Sign_wipes_key(c) ==
    /\ calls[c].pc = "L29"
    /\ \E hp \in BOOLEAN :
        LET r == sign(signers[calls[c].signer], calls[c].auth_struct_hash[1], hp)
        IN  calls' = [calls EXCEPT ![c].pc = IF r.ok THEN "done" ELSE "raised",
                        ![c].nsign = calls[c].nsign + 1,
                        ![c].result = IF r.ok THEN Some(prepend_zx(r.val)) ELSE None]
    /\ signers' = [signers EXCEPT ![calls[c].signer].private_key =
                        Some([nbytes |-> 32, scalar |-> 0])]
    /\ UNCHANGED <<ctor, valVars, flatVars>>

\* line 29: return prepend_zx(signer.sign(auth_struct_hash))
Sign(c) ==
    /\ calls[c].pc = "L29"
    /\ \E hp \in BOOLEAN :
        LET r == sign(signers[calls[c].signer], calls[c].auth_struct_hash[1], hp)
        IN  calls' = [calls EXCEPT ![c].pc = IF r.ok THEN "done" ELSE "raised",
                        ![c].nsign = calls[c].nsign + 1,
                        ![c].result = IF r.ok THEN Some(prepend_zx(r.val)) ELSE None]
    /\ UNCHANGED <<signers, ctor, valVars, flatVars>>

\* the caller takes the returned text and may call again
Return(c) ==
    /\ calls[c].pc = "done"
    /\ calls' = [calls EXCEPT ![c] = IdleCall]
    /\ UNCHANGED <<signers, ctor, valVars, flatVars>>

NextSign ==
    \/ \E k \in PrivateKeys, n \in ChainIds : SignerInit(k, n)
    \/ \E c \in Callers, s \in 1..MaxSigners, ts \in Timestamps, n \in Nonces :
            Begin(c, s, ts, n)
    \/ \E c \in Callers : BuildMsg(c)
    \/ \E c \in Callers : GetChainId(c)
    \/ \E c \in Callers : HashStruct(c)
    \/ \E c \in Callers : Sign(c)
    \/ \E c \in Callers : Return(c)

SpecSign == InitSign /\ [][NextSign]_vars

----------------------------------------------------------------------------
(* GQLPosition._flatten: types/data_types.py *)

\* Python values of the payload: a str, None or a dict (a function on its keys)
EmptyDict == [k \in {} |-> 0]
PyStr(s) == [t |-> "str", s |-> s, d |-> EmptyDict]
PyNone == [t |-> "none", s |-> "", d |-> EmptyDict]
PyDict(d) == [t |-> "dict", s |-> "", d |-> d]

\* dict.get(k), dict.setdefault(k, x), dict.pop(k, None)
get(d, k) == IF k \in DOMAIN d THEN d[k] ELSE PyNone
setdefault(d, k, x) ==
    IF k \in DOMAIN d THEN d
    ELSE [j \in DOMAIN d \cup {k} |-> IF j = k THEN x ELSE d[j]]
pop(d, k) == [j \in DOMAIN d \ {k} |-> d[j]]
\* d[k] = x
setitem(d, k, x) == [j \in DOMAIN d \cup {k} |-> IF j = k THEN x ELSE d[j]]

\* faulty variant: values[key] = ... in place of values.setdefault(key, ...)
_flatten_assigns(vals) ==
    LET asset == get(vals, "asset")
    IN  IF asset.t = "dict"
        THEN LET a == asset.d
                 v1 == IF "id" \in DOMAIN a
                       THEN setitem(vals, "token_id", a["id"]) ELSE vals
                 v2 == IF "complement" \in DOMAIN a
                       THEN setitem(v1, "complementary_token_id", a["complement"])
                       ELSE v1
                 condition == get(a, "condition")
                 v3 == IF condition.t = "dict" /\ "id" \in DOMAIN condition.d
                       THEN setitem(v2, "condition_id", condition.d["id"])
                       ELSE v2
                 v4 == IF "outcomeIndex" \in DOMAIN a
                       THEN setitem(v3, "outcome_index", a["outcomeIndex"])
                       ELSE v3
             IN  pop(v4, "asset")
        ELSE vals

\* GQLPosition._flatten
_flatten(vals) ==
    LET asset == get(vals, "asset")
    IN  IF asset.t = "dict"
        THEN LET a == asset.d
                 v1 == IF "id" \in DOMAIN a
                       THEN setdefault(vals, "token_id", a["id"]) ELSE vals
                 v2 == IF "complement" \in DOMAIN a
                       THEN setdefault(v1, "complementary_token_id", a["complement"])
                       ELSE v1
                 condition == get(a, "condition")
                 v3 == IF condition.t = "dict" /\ "id" \in DOMAIN condition.d
                       THEN setdefault(v2, "condition_id", condition.d["id"])
                       ELSE v2
                 v4 == IF "outcomeIndex" \in DOMAIN a
                       THEN setdefault(v3, "outcome_index", a["outcomeIndex"])
                       ELSE v3
             IN  pop(v4, "asset")
        ELSE vals

ConditionValues ==
    {PyStr("0xc0"), PyDict(EmptyDict), PyDict([k \in {"id"} |-> PyStr("0xc1")]),
     PyDict([k \in {"id", "slug"} |-> PyStr("0xc2")])}

AssetDicts ==
    {[k \in ks \cup cs |->
        IF k = "condition" THEN c ELSE PyStr("asset." \o k)] :
     ks \in SUBSET {"id", "complement", "outcomeIndex"},
     cs \in {{}, {"condition"}},
     c \in ConditionValues}

AssetValues == {PyNone, PyStr("123")} \cup {PyDict(a) : a \in AssetDicts}

TargetKeys == {"token_id", "complementary_token_id", "condition_id", "outcome_index"}

FlatInputs ==
    {[k \in ks \cup as |-> IF k = "asset" THEN a ELSE PyStr("top." \o k)] :
     ks \in SUBSET (TargetKeys \cup {"user"}),
     as \in {{}, {"asset"}},
     a \in AssetValues}

InitFlat ==
    /\ values \in FlatInputs
    /\ orig = values
    /\ fpc = "start"
    /\ ValIdle
    /\ SignIdle

\* the model validator runs on the payload, in place
Flatten ==
    /\ fpc = "start"
    /\ values' = _flatten(values)
    /\ fpc' = "done"
    /\ UNCHANGED <<orig, valVars, signVars>>

NextFlat == Flatten

SpecFlat == InitFlat /\ [][NextFlat]_vars

----------------------------------------------------------------------------
(* Properties of the validators, under SpecVal *)

IsHex(s, n) == Len(s) = n /\ \A i \in 1..Len(s) : s[i] \in HexChars

\* the hex body of an argument: the text after an optional "0x", or the digits
\* of the octets
TextOf(val) == IF val.t = "str" THEN Body(val.s) ELSE BytesHex(val.b)

BothCalls(fn) == vpc = "finished" /\ prev.fn = fn /\ call.fn = fn

\* C1: validate_eth_address returns one canonical string for a 40-hex-digit
\* body whatever the case of its letters and whether or not it carries "0x":
\* two calls on texts that differ only in case and prefix return the same value.
C1_OneCanonicalString ==
    (/\ BothCalls("validate_eth_address")
     /\ prev.arg.t = "str" /\ call.arg.t = "str"
     /\ IsHex(Body(prev.arg.s), ADDR_HEX_LEN)
     /\ Lower(Body(call.arg.s)) = Lower(Body(prev.arg.s)))
    => (prev.res.ok /\ call.res.ok /\ call.res.val = prev.res.val)

\* C2: each validator is idempotent: called on the value it returned, it
\* succeeds and returns that value again.
C2_Idempotent ==
    (/\ vpc = "finished"
     /\ call.fn = prev.fn
     /\ prev.res.ok
     /\ call.arg = prev.res.val)
    => call.res = prev.res

\* an address given as 20 octets was validated, and its output validated again
C2_Witness ==
    /\ BothCalls("validate_eth_address")
    /\ prev.arg.t = "bytes"
    /\ prev.res.ok
    /\ call.arg = prev.res.val
    /\ call.arg # prev.arg
    /\ call.res.ok

\* C3: validate_eth_address rejects every input whose hex body is not exactly
\* 40 hex digits, and every value it returns is "0x" and 40 hex digits, 42
\* characters, nothing before or after.
C3_AddressShape ==
    call.fn = "validate_eth_address" =>
        /\ ~IsHex(TextOf(call.arg), ADDR_HEX_LEN) => ~call.res.ok
        /\ call.res.ok =>
              /\ call.res.val.t = "str"
              /\ Len(call.res.val.s) = 2 + ADDR_HEX_LEN
              /\ StartsWith0x(call.res.val.s)
              /\ IsHex(Body(call.res.val.s), ADDR_HEX_LEN)

\* C4: validate_keccak256 accepts an input exactly when its hex body is 64 hex
\* digits, and then returns "0x" and that body, case unchanged, 66 characters.
C4_HashShape ==
    call.fn = "validate_keccak256" =>
        /\ call.res.ok <=> IsHex(TextOf(call.arg), HASH_HEX_LEN)
        /\ call.res.ok =>
              /\ call.res.val = StrV(ZX \o TextOf(call.arg))
              /\ Len(call.res.val.s) = 2 + HASH_HEX_LEN

\* C5: validate_keccak256 and validate_keccak_or_padded agree on every
\* 66-character string: both reject it, or both accept it and return the same
\* value.
C5_SameAcceptance ==
    (/\ vpc = "finished"
     /\ {prev.fn, call.fn} = {"validate_keccak256", "validate_keccak_or_padded"}
     /\ prev.arg = call.arg
     /\ call.arg.t = "str"
     /\ Len(call.arg.s) = PADDED_LEN)
    => call.res = prev.res

\* a 32-octet value with 24 leading zero octets went through both and was
\* accepted by both
C5_Witness ==
    /\ vpc = "finished"
    /\ prev.fn = "validate_keccak256"
    /\ call.fn = "validate_keccak_or_padded"
    /\ prev.arg = call.arg
    /\ call.arg = StrV(ZX \o Fill("0", 48) \o Fill("a", HASH_HEX_LEN - 48))
    /\ prev.res.ok /\ call.res.ok

----------------------------------------------------------------------------
(* Properties of the signing part, under SpecSign *)

SignerOf(c) == signers[calls[c].signer]

BadArguments(private_key, chain_id) ==
    private_key = None \/ chain_id = None \/ ~KeyOk(private_key[1])

\* C6: Signer(...) raises when the private key is None, the chain id is None
\* or the key is malformed, and raises in the constructor: every Signer that
\* exists, and every Signer a caller holds, has a well-formed key and a chain id.
C6_ConstructionFails ==
    /\ \A i \in DOMAIN signers :
          /\ signers[i].private_key # None
          /\ KeyOk(signers[i].private_key[1])
          /\ signers[i].chain_id # None
    /\ (ctor.raised # "not called" /\ BadArguments(ctor.private_key, ctor.chain_id))
          => ctor.raised \in {"ValueError", "Account.from_key"}
    /\ \A c \in Callers : calls[c].pc # "idle" => calls[c].signer \in DOMAIN signers

\* with one Signer in existence, a construction with a 31-octet key was refused
C6_Witness ==
    /\ Len(signers) = 1
    /\ ctor.private_key = Some([nbytes |-> 31, scalar |-> 1])
    /\ ctor.chain_id = Some(137)
    /\ ctor.raised = "Account.from_key"

\* C7: sign_clob_auth_message returns "0x" and 130 hex digits, once prefixed:
\* the signer's signature, from one sign call, over the digest of (address =
\* the signer's derived address, timestamp = the decimal text of the timestamp,
\* nonce, message = the fixed text), in that order, under the domain
\* ("ClobAuthDomain", "1", the signer's chain id).
C7_AuthSignature ==
    \A c \in Callers : calls[c].pc = "done" =>
        LET key == SignerOf(c).private_key[1].scalar
            struct ==
                <<[field |-> "address", value |-> Some([address_of |-> key])],
                  [field |-> "timestamp", value |-> Some(Str(calls[c].timestamp))],
                  [field |-> "nonce", value |-> Some(calls[c].nonce)],
                  [field |-> "message", value |->
                      Some("This message attests that I control the given wallet")]>>
            domain == [name |-> "ClobAuthDomain", version |-> "1",
                       chainId |-> SignerOf(c).chain_id]
            digest == [keccak |-> [prefix |-> "1901",
                                   domain_separator |-> [keccak |-> domain],
                                   struct_hash |-> [keccak |-> struct]]]
        IN  /\ calls[c].nsign = 1
            /\ calls[c].result =
                  Some([zx |-> 1, digits |-> 130,
                        of |-> [signed_by |-> key, over |-> digest]])

\* a call with timestamp 1700 returned; its struct carries the text "1700"
C7_Witness ==
    \E c \in Callers :
        /\ calls[c].pc = "done"
        /\ calls[c].timestamp = 1700
        /\ calls[c].clob_auth_msg[1][2].value = Some(<<"1", "7", "0", "0">>)
        /\ calls[c].result # None

\* C8: for one private key, timestamp and nonce, the signatures returned under
\* two different chain ids are different texts.
C8_ReplayIsolation ==
    \A c1, c2 \in Callers :
        (/\ calls[c1].pc = "done" /\ calls[c2].pc = "done"
         /\ SignerOf(c1).private_key = SignerOf(c2).private_key
         /\ calls[c1].timestamp = calls[c2].timestamp
         /\ calls[c1].nonce = calls[c2].nonce
         /\ SignerOf(c1).chain_id # SignerOf(c2).chain_id)
        => calls[c1].result # calls[c2].result

\* the same key signed the same timestamp and nonce under chain 137 and chain 1
C8_Witness ==
    /\ calls["c1"].pc = "done" /\ calls["c2"].pc = "done"
    /\ SignerOf("c1").private_key = SignerOf("c2").private_key
    /\ calls["c1"].timestamp = calls["c2"].timestamp
    /\ calls["c1"].nonce = calls["c2"].nonce
    /\ SignerOf("c1").chain_id = Some(137)
    /\ SignerOf("c2").chain_id = Some(1)

\* C9: no step changes a Signer that exists, and whatever the interleaving a
\* call returns what sign_clob_auth_message returns when it runs alone.
C9_SignerReadOnly ==
    /\ [][\A i \in DOMAIN signers : signers'[i] = signers[i]]_vars
    /\ [](\A c \in Callers : calls[c].pc = "done" =>
            \A hp \in BOOLEAN :
                /\ sign_clob_auth_message(SignerOf(c), calls[c].timestamp,
                                          calls[c].nonce, hp).ok
                /\ calls[c].result =
                      Some(sign_clob_auth_message(SignerOf(c), calls[c].timestamp,
                                                  calls[c].nonce, hp).val))

\* two calls on one Signer overlapped: one has returned while the other, begun
\* with another nonce, is about to sign
C9_Witness ==
    /\ calls["c1"].pc = "done"
    /\ calls["c2"].pc = "L29"
    /\ calls["c1"].signer = calls["c2"].signer
    /\ calls["c1"].nonce # calls["c2"].nonce

----------------------------------------------------------------------------
(* Properties of GQLPosition._flatten, under SpecFlat *)

HasNested(a, k) ==
    CASE k = "token_id" -> "id" \in DOMAIN a
      [] k = "complementary_token_id" -> "complement" \in DOMAIN a
      [] k = "outcome_index" -> "outcomeIndex" \in DOMAIN a
      [] k = "condition_id" ->
            /\ "condition" \in DOMAIN a
            /\ a["condition"].t = "dict"
            /\ "id" \in DOMAIN a["condition"].d

Nested(a, k) ==
    CASE k = "token_id" -> a["id"]
      [] k = "complementary_token_id" -> a["complement"]
      [] k = "outcome_index" -> a["outcomeIndex"]
      [] k = "condition_id" -> a["condition"].d["id"]

\* C10: when "asset" is a mapping, _flatten takes token_id,
\* complementary_token_id, condition_id and outcome_index from the asset's id,
\* complement, condition.id and outcomeIndex for the keys that are not
\* already present, never overwrites a present one, removes "asset" and leaves
\* every other key as it was; otherwise it returns its input unchanged.
C10_Flatten ==
    fpc = "done" =>
        IF "asset" \in DOMAIN orig /\ orig["asset"].t = "dict"
        THEN LET a == orig["asset"].d
             IN  /\ "asset" \notin DOMAIN values
                 /\ \A k \in DOMAIN orig \ {"asset"} :
                        k \in DOMAIN values /\ values[k] = orig[k]
                 /\ \A k \in TargetKeys \ DOMAIN orig :
                        IF HasNested(a, k)
                        THEN k \in DOMAIN values /\ values[k] = Nested(a, k)
                        ELSE k \notin DOMAIN values
                 /\ DOMAIN values \subseteq (DOMAIN orig \cup TargetKeys)
        ELSE values = orig

\* a payload that already had token_id and lacked condition_id was flattened:
\* token_id kept its value, condition_id came from asset.condition.id
C10_Witness ==
    /\ fpc = "done"
    /\ "asset" \in DOMAIN orig /\ orig["asset"].t = "dict"
    /\ "id" \in DOMAIN orig["asset"].d
    /\ "token_id" \in DOMAIN orig
    /\ "condition_id" \notin DOMAIN orig
    /\ values["token_id"] = PyStr("top.token_id")
    /\ values["token_id"] # orig["asset"].d["id"]
    /\ "condition_id" \in DOMAIN values
    /\ values["condition_id"] = PyStr("0xc1")
    /\ "user" \in DOMAIN values

====
